---- MODULE Spec2Model ----
(***************************************************************************)
(* A model of django_sitemap/myapp: the Snippet model (models.py), its two *)
(* views (views.py), the URL patterns (urls.py) and the two sitemap        *)
(* sources (sitemaps.py).                                                  *)
(*                                                                         *)
(* A text value (a title, a slug, a request path) is a sequence of         *)
(* characters, each character a one-character string; the two non-ASCII    *)
(* characters of the alphabet are written by their code points.            *)
(*                                                                         *)
(* The framework calls the source makes (slugify, Model.save,              *)
(* get_object_or_404, path(), reverse, Sitemap.location) are modelled by   *)
(* what Django does at the call: slugify as of Django 3.2 and later, which *)
(* strips leading and trailing hyphens and underscores.  urls.py is taken  *)
(* to be mounted at the site root, as the routes /<slug>/ and /about/ say. *)
(***************************************************************************)
EXTENDS Naturals, Sequences, FiniteSets

VARIABLES store, saved, resp, pc, inst

vars == <<store, saved, resp, pc, inst>>

\* ------------------------------------------------------------------ bounds

\* The record store holds at most MaxRecords rows (primary keys 1..MaxRecords).
MaxRecords == 2

\* SlugSpec draws every title of at most MaxTitleLen characters over TitleAlphabet.
MaxTitleLen == 3

\* -------------------------------------------------------------- characters

UpperSeq == <<"A","B","C","D","E","F","G","H","I","J","K","L","M",
              "N","O","P","Q","R","S","T","U","V","W","X","Y","Z">>

LowerSeq == <<"a","b","c","d","e","f","g","h","i","j","k","l","m",
              "n","o","p","q","r","s","t","u","v","w","x","y","z">>

Uppers == {UpperSeq[i] : i \in DOMAIN UpperSeq}

Lowers == {LowerSeq[i] : i \in DOMAIN LowerSeq}

Digits == {"0","1","2","3","4","5","6","7","8","9"}

\* What the regular expression class \s matches among ASCII characters.
Whitespace == {" ", "\t", "\n", "\r", "\f"}

\* What \w matches in an ASCII string: letters, digits and the underscore.
WordChars == Uppers \cup Lowers \cup Digits \cup {"_"}

\* The lowercase letter of each uppercase letter.
LowerOf == [c \in Uppers |-> LowerSeq[CHOOSE i \in DOMAIN UpperSeq : UpperSeq[i] = c]]

\* str.lower() on one character.
Lower(c) == IF c \in Uppers THEN LowerOf[c] ELSE c

\* unicodedata.normalize('NFKD', c).encode('ascii', 'ignore') on one character:
\* an ASCII character is kept, U+00E9 (e with acute) decomposes to e and a
\* combining accent that is dropped, U+00DF (sharp s) has no decomposition and
\* is dropped whole.
AsciiFold(c) ==
    IF c = "U+00E9" THEN <<"e">>
    ELSE IF c = "U+00DF" THEN <<>>
    ELSE <<c>>

RECURSIVE AsciiFoldAll(_)
\* unicodedata.normalize('NFKD', value).encode('ascii', 'ignore').decode('ascii')
AsciiFoldAll(s) ==
    IF s = <<>> THEN <<>> ELSE AsciiFold(Head(s)) \o AsciiFoldAll(Tail(s))

\* value.lower()
LowerAll(s) == [i \in DOMAIN s |-> Lower(s[i])]

\* The class [\w\s-]
KeptChars == WordChars \cup Whitespace \cup {"-"}

\* The class [-\s]
Separators == Whitespace \cup {"-"}

\* The characters strip("-_") takes off the ends.
StrippedChars == {"-", "_"}

\* re.sub(r'[^\w\s-]', '', value): the characters outside \w, \s and "-" go.
DropUnsafe(s) == SelectSeq(s, LAMBDA c : c \in KeptChars)

RECURSIVE LStrip(_, _)
\* str.lstrip(chars)
LStrip(s, chars) ==
    IF s # <<>> /\ Head(s) \in chars THEN LStrip(Tail(s), chars) ELSE s

RECURSIVE RStrip(_, _)
\* str.rstrip(chars)
RStrip(s, chars) ==
    IF s # <<>> /\ s[Len(s)] \in chars
    THEN RStrip(SubSeq(s, 1, Len(s) - 1), chars)
    ELSE s

\* str.strip(chars)
Strip(s, chars) == RStrip(LStrip(s, chars), chars)

RECURSIVE CollapseRuns(_)
\* re.sub(r'[-\s]+', '-', value): each maximal run of hyphens and whitespace
\* becomes one hyphen.
CollapseRuns(s) ==
    IF s = <<>> THEN <<>>
    ELSE IF Head(s) \in Separators
         THEN <<"-">> \o CollapseRuns(LStrip(Tail(s), Separators))
         ELSE <<Head(s)>> \o CollapseRuns(Tail(s))

\* slugify without its final strip("-_"): a mutant of slugify.
slugify_keeps_ends(value) ==
    CollapseRuns(DropUnsafe(LowerAll(AsciiFoldAll(value))))

\* django.utils.text.slugify(value), allow_unicode=False.
slugify(value) ==
    Strip(CollapseRuns(DropUnsafe(LowerAll(AsciiFoldAll(value)))), StrippedChars)

\* ------------------------------------------------------------------ titles

T_About == <<"A","b","o","u","t">>

T_about == <<"a","b","o","u","t">>

T_Blank == <<" ", "!">>

\* The titles clients save under in Spec: one whose slug is the static
\* route's name, and one whose slug is empty.  Two rows of one slug come from
\* saving the same title twice.
Titles == {T_about, T_Blank}

\* The titles clients save under in ConcSpec: two different titles that
\* normalize to the same slug, and one whose slug is empty.
ConcTitles == {T_About, T_about, T_Blank}

\* The characters SlugSpec builds titles from: an uppercase and a lowercase
\* letter, a digit, a space, a hyphen, an underscore, a punctuation mark and
\* two non-ASCII letters.
TitleAlphabet == {"A", "b", "1", " ", "-", "_", "!", "U+00E9", "U+00DF"}

\* Every title of at most MaxTitleLen characters over TitleAlphabet.
BoundedTitles == UNION {[1 .. n -> TitleAlphabet] : n \in 0 .. MaxTitleLen}

\* The titles of the documented scenarios.
ScenarioTitles ==
    { <<"H","e","l","l","o"," ","W","o","r","l","d">>,
      <<" "," ","M","u","l","t","i","p","l","e"," "," "," ",
        "S","p","a","c","e","s","!","!"," ">> }

\* ------------------------------------------------------------------- model

\* Primary keys of the rows this model lets the table hold.
Ids == 1 .. MaxRecords

\* pk of an instance that was never saved (Python's None).
NoPk == 0

\* slug of an instance the client gave no slug (Python's None): a token that
\* is no sequence of characters.
NoneSlug == <<"None">>

\* The concrete fields of Snippet besides the primary key.
Fields == {"title", "slug", "body"}

\* A slug column declared unique=True: a mutant of SlugUnique.
SlugUniqueDeclared == TRUE

\* slug = models.SlugField(blank=True, null=True): the column carries no
\* unique constraint.
SlugUnique == FALSE

\* update_fields=None, the default of Model.save: a token that is no set of
\* field names.
AllFields == {"<None>"}

\* Python's truth value of update_fields: neither None nor empty.
Truthy(update_fields) == update_fields # AllFields /\ update_fields # {}

\* The row an instance writes.
Row(obj) == [title |-> obj.title, slug |-> obj.slug, body |-> obj.body]

\* The key the table gives an inserted row that brings none.
NextPk(st) ==
    IF DOMAIN st = {} THEN 1
    ELSE 1 + CHOOSE m \in DOMAIN st : \A k \in DOMAIN st : k <= m

\* A unique constraint on slug, were there one, would refuse a second row
\* with the slug.
SlugTaken(st, pk, slug) ==
    SlugUnique /\ \E k \in DOMAIN st : k # pk /\ st[k].slug = slug

\* INSERT: the row goes in under obj.pk, or under a fresh key.
Insert(st, obj) ==
    LET pk == IF obj.pk = NoPk THEN NextPk(st) ELSE obj.pk
    IN  IF pk \in DOMAIN st \/ SlugTaken(st, pk, obj.slug)
        THEN [store |-> st, outcome |-> "IntegrityError", pk |-> NoPk]
        ELSE [store |-> [k \in DOMAIN st \cup {pk} |->
                            IF k = pk THEN Row(obj) ELSE st[k]],
              outcome |-> "ok", pk |-> pk]

\* UPDATE ... WHERE pk = obj.pk of the named fields (all of them for
\* update_fields=None) of a row that exists.
Update(st, obj, update_fields) ==
    LET written == IF update_fields = AllFields THEN Fields ELSE update_fields
        old == st[obj.pk]
        row == [title |-> IF "title" \in written THEN obj.title ELSE old.title,
                slug  |-> IF "slug" \in written THEN obj.slug ELSE old.slug,
                body  |-> IF "body" \in written THEN obj.body ELSE old.body]
    IN  IF "slug" \in written /\ SlugTaken(st, obj.pk, obj.slug)
        THEN [store |-> st, outcome |-> "IntegrityError", pk |-> NoPk]
        ELSE [store |-> [st EXCEPT ![obj.pk] = row], outcome |-> "ok", pk |-> obj.pk]

\* django.db.models.Model.save(force_insert, force_update, update_fields):
\* what super().save(*args, **kwargs) does with the instance.
model_save(st, obj, force_insert, force_update, update_fields) ==
    IF force_insert /\ (force_update \/ Truthy(update_fields))
    THEN [store |-> st, outcome |-> "ValueError", pk |-> NoPk]
    ELSE IF update_fields = {}
    THEN [store |-> st, outcome |-> "ok", pk |-> NoPk]
    ELSE IF obj.pk = NoPk /\ (force_update \/ Truthy(update_fields))
    THEN [store |-> st, outcome |-> "ValueError", pk |-> NoPk]
    ELSE IF obj.pk # NoPk /\ ~force_insert /\ obj.pk \in DOMAIN st
    THEN Update(st, obj, update_fields)
    ELSE IF obj.pk # NoPk /\ ~force_insert /\ (force_update \/ Truthy(update_fields))
    THEN [store |-> st, outcome |-> "DatabaseError", pk |-> NoPk]
    ELSE Insert(st, obj)

\* A save that keeps a slug the client supplied and derives one only when
\* there is none: a mutant of assign_slug.
assign_slug_if_blank(obj) ==
    IF obj.slug \in {NoneSlug, <<>>}
    THEN [obj EXCEPT !.slug = slugify(obj.title)]
    ELSE obj

\* self.slug = slugify(self.title)
assign_slug(obj) == [obj EXCEPT !.slug = slugify(obj.title)]

\* Snippet.save(*args, **kwargs)
Snippet_save(st, obj, force_insert, force_update, update_fields) ==
    model_save(st, assign_slug(obj), force_insert, force_update, update_fields)

\* get_absolute_url(self): f'/{self.slug}'
get_absolute_url(row) == <<"/">> \o row.slug

\* -------------------------------------------------------------------- urls

\* What the path converter "slug" matches: [-a-zA-Z0-9_]+
SlugConverterChars == Uppers \cup Lowers \cup Digits \cup {"-", "_"}

\* urlpatterns, in the declared order; "<slug:slug>" stands for the converter.
urlpatterns ==
    << [route |-> <<"<slug:slug>", "/">>, view |-> "snippet_detail", name |-> ""],
       [route |-> <<"a","b","o","u","t","/">>, view |-> "about", name |-> "about"] >>

RECURSIVE RouteMatches(_, _)
\* Whether a route matches the whole of a path (path() anchors both ends).
RouteMatches(route, path) ==
    IF route = <<>> THEN path = <<>>
    ELSE IF Head(route) = "<slug:slug>"
    THEN \E n \in 1 .. Len(path) :
            /\ \A i \in 1 .. n : path[i] \in SlugConverterChars
            /\ RouteMatches(Tail(route), SubSeq(path, n + 1, Len(path)))
    ELSE path # <<>> /\ Head(path) = Head(route)
         /\ RouteMatches(Tail(route), Tail(path))

\* The keyword argument slug a matching "<slug:slug>/" captures: what stands
\* before the closing slash.
CapturedSlug(path) == SubSeq(path, 1, Len(path) - 1)

\* The URL resolver: the path without its leading slash is tried against the
\* patterns in order and the first that matches wins; none is Resolver404.
resolve(path) ==
    LET rest == Tail(path)
        hits == {i \in DOMAIN urlpatterns : RouteMatches(urlpatterns[i].route, rest)}
    IN  IF hits = {}
        THEN [view |-> "Resolver404", slug |-> <<>>]
        ELSE LET first == CHOOSE i \in hits : \A j \in hits : i <= j
             IN  [view |-> urlpatterns[first].view,
                  slug |-> IF urlpatterns[first].view = "snippet_detail"
                           THEN CapturedSlug(rest) ELSE <<>>]

\* reverse(name): the path of the pattern of that name.
reverse(name) ==
    LET i == CHOOSE j \in DOMAIN urlpatterns : urlpatterns[j].name = name
    IN  <<"/">> \o urlpatterns[i].route

\* ------------------------------------------------------------------- views

\* Snippet.objects.get(slug=slug) inside get_object_or_404: the one row of
\* that slug; none raises Http404, several raise MultipleObjectsReturned.
get_object_or_404(st, slug) ==
    LET rows == {k \in DOMAIN st : st[k].slug = slug}
    IN  IF rows = {} THEN [signal |-> "Http404", pk |-> NoPk]
        ELSE IF Cardinality(rows) = 1
        THEN [signal |-> "found", pk |-> CHOOSE k \in rows : TRUE]
        ELSE [signal |-> "MultipleObjectsReturned", pk |-> NoPk]

\* about(request)
about(st) ==
    [store |-> st, view |-> "about", status |-> 200, body |-> <<"about page">>,
     signal |-> "none", pk |-> NoPk]

\* A detail view that creates the row it does not find (get_or_create in
\* place of get_object_or_404): a mutant of snippet_detail.
snippet_detail_creating(st, slug) ==
    LET got == get_object_or_404(st, slug)
        obj == [pk |-> NoPk, title |-> slug, slug |-> slug, body |-> "X"]
    IN  IF got.signal = "Http404" /\ NextPk(st) \in Ids
        THEN [store |-> Insert(st, obj).store, view |-> "snippet_detail",
              status |-> 200, signal |-> "found", pk |-> NextPk(st),
              body |-> <<"the detailview for slug of ">> \o slug]
        ELSE [store |-> st, view |-> "snippet_detail",
              status |-> IF got.signal = "found" THEN 200 ELSE 500,
              signal |-> got.signal, pk |-> got.pk,
              body |-> IF got.signal = "found"
                       THEN <<"the detailview for slug of ">> \o slug ELSE <<>>]

\* snippet_detail(request, slug): Http404 becomes the 404 response, any other
\* exception leaves the view and becomes the server's 500.
snippet_detail(st, slug) ==
    LET got == get_object_or_404(st, slug)
    IN  [store |-> st, view |-> "snippet_detail",
         status |-> CASE got.signal = "found" -> 200
                      [] got.signal = "Http404" -> 404
                      [] OTHER -> 500,
         body |-> IF got.signal = "found"
                  THEN <<"the detailview for slug of ">> \o slug ELSE <<>>,
         signal |-> got.signal, pk |-> got.pk]

\* One request through the route table.  A path no pattern matches is
\* answered 404, or, where the site's settings append slashes and the path
\* with a slash added would match, 301.
handle(st, path, append_slash) ==
    LET m == resolve(path)
    IN  CASE m.view = "about" -> about(st)
          [] m.view = "snippet_detail" -> snippet_detail(st, m.slug)
          [] OTHER ->
                [store |-> st, view |-> "Resolver404",
                 status |-> IF append_slash
                               /\ resolve(path \o <<"/">>).view # "Resolver404"
                            THEN 301 ELSE 404,
                 body |-> <<>>, signal |-> "Resolver404", pk |-> NoPk]

\* ---------------------------------------------------------------- sitemaps

\* StaticViewSitemap.items()
StaticViewSitemap_items == <<"about">>

\* SnippetSitemap.items() listing only the rows with a non-empty slug: a
\* mutant of SnippetSitemap_items.
SnippetSitemap_items_nonblank(st) == {k \in DOMAIN st : st[k].slug # <<>>}

\* SnippetSitemap.items(): Snippet.objects.all()
SnippetSitemap_items(st) == DOMAIN st

\* The entries the two sources give the sitemap, one per item (key: its place
\* in the static list, or the row's primary key), its location by
\* StaticViewSitemap.location (reverse) or by Sitemap.location's default, the
\* item's get_absolute_url().
sitemap_entries(st) ==
    {[source |-> "static", key |-> i, loc |-> reverse(StaticViewSitemap_items[i])] :
        i \in DOMAIN StaticViewSitemap_items}
    \cup
    {[source |-> "snippets", key |-> k, loc |-> get_absolute_url(st[k])] :
        k \in SnippetSitemap_items(st)}

\* ------------------------------------------------------------------ inputs

Bodies == {"X"}

\* What a client may have put in the slug attribute before saving.
ClientSlugs == {NoneSlug, <<"m","i","n","e">>}

\* The values update_fields takes: None, or any set of field names.
UpdateFieldsArgs == {AllFields} \cup SUBSET Fields

\* The keyword arguments the Save action draws: update_fields left out, empty
\* or any set of fields, or one or both of the force flags.  A force flag
\* together with update_fields behaves as one of these: force_insert with a
\* non-empty update_fields raises the ValueError of both flags, an empty
\* update_fields returns at once, and force_update with update_fields updates
\* or raises as update_fields alone does.
SaveCalls ==
    {[force_insert |-> FALSE, force_update |-> FALSE, update_fields |-> uf] :
        uf \in UpdateFieldsArgs}
    \cup {[force_insert |-> fi, force_update |-> fu, update_fields |-> AllFields] :
            fi \in BOOLEAN, fu \in BOOLEAN}

\* The instances a client may call save on: new ones, and ones carrying a
\* primary key (loaded and edited, or built with one).
Instances ==
    [pk : {NoPk} \cup Ids, title : Titles, slug : ClientSlugs, body : Bodies]

\* The path of the static page.
AboutPath == <<"/","a","b","o","u","t","/">>

\* The paths requested: the static page, each title's detail page, each
\* location a sitemap can list for a title, and a page of no row.
RequestPaths ==
    {AboutPath, <<"/","n","o","p","e","/">>}
    \cup {<<"/">> \o slugify(t) \o <<"/">> : t \in Titles}
    \cup {<<"/">> \o slugify(t) : t \in Titles}

\* The clients that may be inside save at the same time.
Procs == {"p1", "p2"}

\* inst of a client that is not inside save.
NoObj == [pk |-> NoPk, title |-> <<>>, slug |-> NoneSlug, body |-> ""]

\* ------------------------------------------------------------------- state

\* store: the Snippet table, primary key -> row
\* saved: the primary keys in the order of their latest successful write
\* resp:  what the latest operation answered
\* pc, inst: where each client stands inside save, and its instance

\* saved after a write of row pk: pk moves to the end.
Touch(seq, pk) ==
    IF pk = NoPk THEN seq
    ELSE SelectSeq(seq, LAMBDA k : k # pk) \o <<pk>>

Init ==
    /\ store = <<>>
    /\ saved = <<>>
    /\ resp = [kind |-> "none"]
    /\ pc = [p \in Procs |-> "idle"]
    /\ inst = [p \in Procs |-> NoObj]

\* A whole call obj.save(force_insert, force_update, update_fields).
Save(obj, force_insert, force_update, update_fields) ==
    \E r \in {Snippet_save(store, obj, force_insert, force_update, update_fields)} :
        /\ DOMAIN r.store \subseteq Ids
        /\ store' = r.store
        /\ saved' = Touch(saved, r.pk)
        /\ resp' = [kind |-> "save", outcome |-> r.outcome, pk |-> r.pk,
                    given |-> obj.slug]
        /\ UNCHANGED <<pc, inst>>

\* GET path
Request(path, append_slash) ==
    \E r \in {handle(store, path, append_slash)} :
        /\ store' = r.store
        /\ resp' = [kind |-> "request", path |-> path, view |-> r.view,
                    status |-> r.status, body |-> r.body, signal |-> r.signal,
                    pk |-> r.pk]
        /\ UNCHANGED <<saved, pc, inst>>

\* GET of the sitemap: the entries of the two sources.
SitemapRequest ==
    /\ resp' = [kind |-> "sitemap", urls |-> sitemap_entries(store)]
    /\ UNCHANGED <<store, saved, pc, inst>>

Next ==
    \/ \E obj \in Instances, call \in SaveCalls :
          Save(obj, call.force_insert, call.force_update, call.update_fields)
    \/ \E path \in RequestPaths, append_slash \in BOOLEAN :
          Request(path, append_slash)
    \/ SitemapRequest

Spec == Init /\ [][Next]_vars

\* ------------------------------------------------- save, statement by statement

\* A client builds Snippet(title=..., body=...) and calls save() on it.
Call(p, title, body) ==
    /\ pc[p] = "idle"
    /\ pc' = [pc EXCEPT ![p] = "assign"]
    /\ inst' = [inst EXCEPT ![p] =
                  [pk |-> NoPk, title |-> title, slug |-> NoneSlug, body |-> body]]
    /\ UNCHANGED <<store, saved, resp>>

\* self.slug = slugify(self.title)
Assign(p) ==
    /\ pc[p] = "assign"
    /\ pc' = [pc EXCEPT ![p] = "write"]
    /\ inst' = [inst EXCEPT ![p] = assign_slug(inst[p])]
    /\ UNCHANGED <<store, saved, resp>>

\* super().save(*args, **kwargs), called with no arguments
Write(p) ==
    \E r \in {model_save(store, inst[p], FALSE, FALSE, AllFields)} :
        /\ pc[p] = "write"
        /\ DOMAIN r.store \subseteq Ids
        /\ store' = r.store
        /\ saved' = Touch(saved, r.pk)
        /\ resp' = [kind |-> "save", outcome |-> r.outcome, pk |-> r.pk,
                    given |-> NoneSlug]
        /\ pc' = [pc EXCEPT ![p] = "idle"]
        /\ inst' = [inst EXCEPT ![p] = NoObj]

ConcNext ==
    \/ \E p \in Procs, title \in ConcTitles, body \in Bodies : Call(p, title, body)
    \/ \E p \in Procs : Assign(p)
    \/ \E p \in Procs : Write(p)

\* Clients creating Snippets concurrently.
ConcSpec == Init /\ [][ConcNext]_vars

\* One client inside save on a new Snippet of some title.
SlugInit ==
    /\ store = <<>>
    /\ saved = <<>>
    /\ resp = [kind |-> "none"]
    /\ \E title \in BoundedTitles \cup ScenarioTitles :
          /\ pc = [p \in Procs |-> IF p = "p1" THEN "assign" ELSE "idle"]
          /\ inst = [p \in Procs |->
                        IF p = "p1"
                        THEN [pk |-> NoPk, title |-> title, slug |-> NoneSlug,
                              body |-> "X"]
                        ELSE NoObj]

SlugNext ==
    \/ \E p \in Procs : Assign(p)
    \/ \E p \in Procs : Write(p)

\* The slug save stores, for every title of the bounded alphabet.
SlugSpec == SlugInit /\ [][SlugNext]_vars

\* ------------------------------------------------------------------ claims

\* The slug a detail request carries: the path between its two slashes.
RequestedSlug == CapturedSlug(Tail(resp.path))

\* The rows whose stored slug is s.
RowsWithSlug(s) == {k \in DOMAIN store : store[k].slug = s}

\* Of a non-empty set of stored rows, the one written last.
MostRecent(rows) ==
    saved[CHOOSE i \in DOMAIN saved :
            /\ saved[i] \in rows
            /\ \A j \in DOMAIN saved : saved[j] \in rows => j <= i]

\* Whether the sequence s occurs in the sequence b.
Contains(b, s) ==
    \E i \in 0 .. Len(b) : i + Len(s) <= Len(b) /\ SubSeq(b, i + 1, i + Len(s)) = s

\* C1 (as claimed): a request for /about/ is handled by the about view and
\* answered 200 "about page", whatever the store holds.
C1_AboutServedByAbout ==
    (resp.kind = "request" /\ resp.path = AboutPath)
        => (resp.view = "about" /\ resp.status = 200 /\ resp.body = <<"about page">>)

\* C2 (as claimed): every stored row's slug is slugify of that row's stored
\* title, after any sequence of saves with any arguments.
C2_StoredSlugInSync ==
    \A k \in DOMAIN store : store[k].slug = slugify(store[k].title)

\* C3 (as claimed): the detail view's lookup by slug finds the row of that
\* slug written last, also when several rows carry the slug, and signals
\* not-found exactly when no row carries it.
C3_LookupFindsLatest ==
    (resp.kind = "request" /\ resp.view = "snippet_detail")
        => IF RowsWithSlug(RequestedSlug) = {}
           THEN resp.signal = "Http404"
           ELSE resp.signal = "found" /\ resp.pk = MostRecent(RowsWithSlug(RequestedSlug))

\* C4 (as claimed): the detail view ends in 200 with a body containing the
\* slug when a row of that slug is stored, and in 404 when none is; nothing
\* else leaves the view.
C4_DetailIs200Or404 ==
    (resp.kind = "request" /\ resp.view = "snippet_detail")
        => \/ /\ RowsWithSlug(RequestedSlug) # {}
              /\ resp.status = 200
              /\ resp.signal = "found"
              /\ Contains(resp.body, RequestedSlug)
           \/ /\ RowsWithSlug(RequestedSlug) = {}
              /\ resp.status = 404
              /\ resp.signal = "Http404"

C6_SitemapOnePerRouteAndRow ==
    resp.kind = "sitemap"
        => /\ Cardinality(resp.urls) = 1 + Cardinality(DOMAIN store)
           /\ {e.loc : e \in {u \in resp.urls : u.source = "static"}} = {AboutPath}
           /\ Cardinality({u \in resp.urls : u.source = "static"}) = 1
           /\ \A k \in DOMAIN store :
                 {u \in resp.urls : u.source = "snippets" /\ u.key = k}
                    = {[source |-> "snippets", key |-> k,
                        loc |-> <<"/">> \o store[k].slug]}
           /\ \A u \in resp.urls : u.source = "snippets" => u.key \in DOMAIN store

\* C6 witness: a sitemap over two rows of the same slug has three entries.
C6_Witness ==
    /\ resp.kind = "sitemap"
    /\ DOMAIN store = {1, 2}
    /\ store[1].slug = store[2].slug
    /\ Cardinality(resp.urls) = 3

\* C7: what the client put in slug does not reach the store: a save of an
\* instance that came without a slug, and the same save (any force_insert,
\* force_update and update_fields) of the instance with a client slug, give
\* the same store and the same outcome.
C7_ClientSlugIgnored ==
    \A obj \in Instances, other \in ClientSlugs \ {NoneSlug},
       fi \in BOOLEAN, fu \in BOOLEAN, uf \in UpdateFieldsArgs :
        obj.slug = NoneSlug =>
            Snippet_save(store, obj, fi, fu, uf)
                = Snippet_save(store, [obj EXCEPT !.slug = other], fi, fu, uf)

\* C7 witness: a save of an instance that came with a client slug wrote a
\* row, and the row's slug is the derived one, not the client's.
C7_Witness ==
    /\ resp.kind = "save" /\ resp.outcome = "ok" /\ resp.pk # NoPk
    /\ resp.given = <<"m","i","n","e">>
    /\ store[resp.pk].slug = slugify(store[resp.pk].title)
    /\ store[resp.pk].slug # resp.given

\* C8: a save of a new row whose slug a stored row already carries goes
\* through, in every interleaving: it returns normally, adds its row with
\* that slug and leaves the others as they were.
C8_DuplicateSlugSaveSucceeds ==
    [][\A p \in Procs :
          (/\ pc[p] = "write" /\ pc'[p] = "idle"
           /\ \E k \in DOMAIN store : store[k].slug = inst[p].slug)
          => /\ resp'.outcome = "ok"
             /\ resp'.pk \notin DOMAIN store
             /\ DOMAIN store' = DOMAIN store \cup {resp'.pk}
             /\ store'[resp'.pk].slug = inst[p].slug
             /\ \A k \in DOMAIN store : store'[k] = store[k]]_vars

\* C8 witness: two stored rows of different titles carry the same slug, the
\* second written by a save that returned normally.
C8_Witness ==
    /\ resp.kind = "save" /\ resp.outcome = "ok"
    /\ \E j \in DOMAIN store, k \in DOMAIN store :
          /\ j # k
          /\ store[j].title # store[k].title
          /\ store[j].slug = store[k].slug

C10_SitemapLocationsServed ==
    \A k \in DOMAIN store :
        (resp.kind = "request" /\ resp.path = get_absolute_url(store[k]))
            => /\ resp.view = "snippet_detail"
               /\ resp.status = 200

====
